---- MODULE Spec2Model ----
(***************************************************************************)
(* The Kernel module lifecycle (src/src/kernel.rs) over the git worktree   *)
(* layout it drives, with the exit-status classifier and the repository    *)
(* introspection helpers of src/src/util.rs, and the creation of an        *)
(* environment directory (src/src/main.rs).                                *)
(*                                                                         *)
(* Text (a Rust String / OsStr) is a sequence of tokens: a branch name, a  *)
(* commit hash or the line terminator NL.  The name "fx" is <<"fx">>, the   *)
(* standard output of `git branch --show-current` is <<"fx", NL>>.          *)
(***************************************************************************)
EXTENDS Integers, Sequences, FiniteSets, TLC

VARIABLES
  module_status,  \* Kernel.module_status
  refs,           \* the branches of the source repository: name -> log, newest first
  devWt,          \* the dev worktrees on disk, by module path
  cleanWt,        \* the clean worktree on disk (Kernel.clean_path)
  last,           \* the last finished call, as its caller saw it
  mutating_ok,    \* no worktree add / remove / switch has failed so far
  phase,          \* per environment path, how its last load / unload cycle went
  fs              \* the directories on disk at and under beans_config_dir

vars == <<module_status, refs, devWt, cleanWt, last, mutating_ok, phase, fs>>

(***************************************************************************)
(* Bounds                                                                  *)
(***************************************************************************)
\* commits are numbered 1..MaxCommits; the developer stops committing there
MaxCommits == 3

\* allow-lists handed to expect hold up to MaxCodes codes
MaxCodes == 3

\* environment names have up to MaxNameLen characters
MaxNameLen == 2

\* up to MaxBeans environment directories are created
MaxBeans == 2

(***************************************************************************)
(* Paths, names, text                                                      *)
(***************************************************************************)
NL == "\n"

\* the printed form of commit n (`%H`)
HashOf == <<"c1", "c2", "c3", "c4", "c5", "c6", "c7", "c8">>

\* environment directories the caller may pass; the last has no final component
FX == <<"beans", "fx">>
FY == <<"beans", "fy">>
DOTDOT == <<"beans", "..">>
BeanPaths == {FX, FY, DOTDOT}

\* Kernel.bean_relative_dev_path
bean_relative_dev_path == <<"kernel">>

\* bean_path.join(&self.bean_relative_dev_path)
join(bean_path, rel) == bean_path \o rel

ModulePaths == {join(p, bean_relative_dev_path) : p \in BeanPaths}

\* bean_name_from_ taking the last component whatever it is
bean_name_from_unchecked(bean_path) == <<bean_path[Len(bean_path)]>>

\* Path::file_name inside bean_name_from_: <<>> is the error, <<n>> is Ok(n)
bean_name_from_(bean_path) ==
  IF bean_path = <<>> \/ bean_path[Len(bean_path)] = ".."
  THEN <<>>
  ELSE <<bean_path[Len(bean_path)]>>

(***************************************************************************)
(* Process-result classifier (util.rs)                                     *)
(***************************************************************************)
\* an ExitStatus is its numeric code, or Signal when the process has none;
\* SpawnError stands for Command::status()/output() returning Err
Signal == 0 - 1
SpawnError == 0 - 2

success(es) == es = 0

\* expect_success satisfied by any numeric exit code
expect_success_has_code(es) == IF es # Signal THEN "Ok" ELSE "UnexpectedExit"

expect_success(es) == IF success(es) THEN "Ok" ELSE "UnexpectedExit"

\* expect comparing the first allowed code only
expect_first_only(es, code) ==
  IF es = Signal THEN "NoExitCode"
  ELSE IF code # <<>> /\ code[1] = es THEN "Ok"
  ELSE "UnexpectedExit"

expect(es, code) ==
  IF es = Signal THEN "NoExitCode"
  ELSE IF \E i \in DOMAIN code : code[i] = es THEN "Ok"
  ELSE "UnexpectedExit"

\* `.status()?` followed by a classifier result r
io(st, r) == IF st = SpawnError THEN "IoError" ELSE r

(***************************************************************************)
(* Environment directories (src/src/main.rs).  A name and a path are       *)
(* sequences of characters; a directory on disk is the sequence of the     *)
(* components that lead to it from the root directory.                     *)
(***************************************************************************)
FORBIDDEN_CHARS == {"/", "\\", ":", "*", "?", "\"", "<", ">", "|"}

\* the beans configuration directory /r
beans_config_dir == <<"/", "r">>

\* the components of a path, split at the separator
RECURSIVE Components(_)
Components(path) ==
  IF path = <<>> THEN << <<>> >>
  ELSE LET rest == Components(Tail(path))
       IN IF Head(path) = "/" THEN << <<>> >> \o rest
          ELSE << <<Head(path)>> \o Head(rest) >> \o Tail(rest)

\* the directory a sequence of components leads to from the root directory
RECURSIVE Resolve(_, _)
Resolve(comps, at) ==
  IF comps = <<>> THEN at
  ELSE LET c == Head(comps)
       IN IF c = <<>> \/ c = <<".">> THEN Resolve(Tail(comps), at)
          ELSE IF c = <<".", ".">>
            THEN Resolve(Tail(comps), IF at = <<>> THEN at ELSE SubSeq(at, 1, Len(at) - 1))
          ELSE Resolve(Tail(comps), Append(at, c))

\* the directory a path names
DirOf(path) == Resolve(Components(path), <<>>)

\* std::fs::create_dir_all: the directory and every missing ancestor
create_dir_all(disk, path) ==
  LET comps == Components(path)
  IN disk \cup {Resolve(SubSeq(comps, 1, k), <<>>) : k \in 0..Len(comps)}

\* PathBuf::push: an absolute path replaces, anything else is appended after
\* a separator
push(path, name) ==
  IF name # <<>> /\ Head(name) = "/" THEN name
  ELSE IF path # <<>> /\ path[Len(path)] = "/" THEN path \o name
  ELSE path \o <<"/">> \o name

\* the disk with beans_config_dir and no environment in it
ConfigDirOnly == create_dir_all({}, beans_config_dir)

\* create_new_bean(beans_config_dir, name); io_error: create_dir_all fails
create_new_bean(disk, name, io_error) ==
  IF \E i \in DOMAIN name : name[i] \in FORBIDDEN_CHARS
    THEN [result |-> "InvalidInput", bean_dir |-> <<>>, disk |-> disk]
  ELSE LET bean_dir == push(beans_config_dir, name)
       IN IF io_error THEN [result |-> "IoError", bean_dir |-> <<>>, disk |-> disk]
          ELSE [result |-> "Ok", bean_dir |-> bean_dir,
                disk |-> create_dir_all(disk, bean_dir)]

(***************************************************************************)
(* The version-control tool.  A disk d is [refs, dev, clean].  Every       *)
(* command takes a fault: 0 lets the tool act on the repository as it is,  *)
(* any other value is the exit status of a run that failed for a reason of *)
(* the environment and changed nothing.  A command whose working          *)
(* directory is missing is never started (SpawnError).                     *)
(***************************************************************************)
Faults == {0, 1, 128, Signal}

NoDev == [exists |-> FALSE, branch |-> "", dirty |-> FALSE]
NoClean == [exists |-> FALSE, head |-> 0]

Unborn(d) == "main" \notin DOMAIN d.refs

\* a revision argument names a branch only if it is exactly the branch name
Resolves(d, text) == Len(text) = 1 /\ text[1] \in DOMAIN d.refs

AddRef(r, name, log) == [n \in DOMAIN r \cup {name} |-> IF n = name THEN log ELSE r[n]]

\* git worktree add <path> -b <name>      (cwd: source_path)
GitWorktreeAddBranch(d, path, name, fault) ==
  IF fault # 0 THEN [st |-> fault, d |-> d]
  ELSE IF Unborn(d) THEN [st |-> 128, d |-> d]
  ELSE IF name[1] \in DOMAIN d.refs THEN [st |-> 255, d |-> d]
  ELSE IF d.dev[path].exists
       THEN [st |-> 128, d |-> [d EXCEPT !.refs = AddRef(@, name[1], d.refs["main"])]]
  ELSE [st |-> 0,
        d |-> [d EXCEPT !.refs = AddRef(@, name[1], d.refs["main"]),
                        !.dev[path] = [exists |-> TRUE, branch |-> name[1], dirty |-> FALSE]]]

\* git worktree add <clean_path> -d       (cwd: source_path)
GitWorktreeAddDetach(d, fault) ==
  IF fault # 0 THEN [st |-> fault, d |-> d]
  ELSE IF Unborn(d) \/ d.clean.exists THEN [st |-> 128, d |-> d]
  ELSE [st |-> 0, d |-> [d EXCEPT !.clean = [exists |-> TRUE, head |-> Head(d.refs["main"])]]]

\* git worktree remove <path>             (cwd: source_path)
GitWorktreeRemove(d, path, fault) ==
  IF fault # 0 THEN [st |-> fault, d |-> d]
  ELSE IF ~d.dev[path].exists \/ d.dev[path].dirty THEN [st |-> 128, d |-> d]
  ELSE [st |-> 0, d |-> [d EXCEPT !.dev[path] = NoDev]]

\* git switch <branch> --detach           (cwd: clean_path)
GitSwitchDetach(d, branch, fault) ==
  IF ~d.clean.exists THEN [st |-> SpawnError, d |-> d]
  ELSE IF fault # 0 THEN [st |-> fault, d |-> d]
  ELSE IF Resolves(d, branch)
       THEN [st |-> 0, d |-> [d EXCEPT !.clean.head = Head(d.refs[branch[1]])]]
  ELSE [st |-> 128, d |-> d]

RECURSIVE LogLines(_)
LogLines(log) == IF log = <<>> THEN <<>> ELSE <<HashOf[Head(log)], NL>> \o LogLines(Tail(log))

\* git branch --show-current              (cwd: path)
GitBranchShowCurrent(d, path, fault) ==
  IF ~d.dev[path].exists THEN [st |-> SpawnError, stdout |-> <<>>]
  ELSE IF fault # 0 THEN [st |-> fault, stdout |-> <<>>]
  ELSE [st |-> 0, stdout |-> <<d.dev[path].branch, NL>>]

\* git log --pretty=%H                    (cwd: path)
GitLog(d, path, fault) ==
  IF ~d.dev[path].exists THEN [st |-> SpawnError, stdout |-> <<>>]
  ELSE IF fault # 0 THEN [st |-> fault, stdout |-> <<>>]
  ELSE [st |-> 0, stdout |-> LogLines(d.refs[d.dev[path].branch])]

(***************************************************************************)
(* Repository introspection (util.rs): [r, v] is Err(r) or, for r = "Ok",  *)
(* Ok(v)                                                                   *)
(***************************************************************************)
git_branch(d, path, fault) ==
  LET output == GitBranchShowCurrent(d, path, fault)
  IN [st |-> output.st, r |-> io(output.st, expect_success(output.st)), v |-> output.stdout]

git_hash(d, path, fault) ==
  LET output == GitLog(d, path, fault)
  IN [st |-> output.st, r |-> io(output.st, expect_success(output.st)), v |-> output.stdout]

git_status(d, path, fault) ==
  LET output == GitLog(d, path, fault)
  IN [st |-> output.st, r |-> io(output.st, expect_success(output.st)), v |-> Len(output.stdout) > 0]

(***************************************************************************)
(* Kernel (kernel.rs)                                                      *)
(***************************************************************************)
Unloaded == [tag |-> "Unloaded", branch |-> <<>>, hash |-> <<>>]
Loaded(branch, hash) == [tag |-> "Loaded", branch |-> branch, hash |-> hash]

\* one launched subprocess: the command, the module status at its launch, the
\* exit status it came back with and the fault the environment put in its way
Call(cmd, self, st, fault) == [cmd |-> cmd, status |-> self.tag, st |-> st, fault |-> fault]

Outcome(result, st, d, calls) == [result |-> result, status |-> st, d |-> d, calls |-> calls]

(***************************************************************************)
(* Each operation is the set of its outcomes: one for every way the        *)
(* commands it launches can end.  The fault of a command is drawn when the *)
(* command is launched.                                                    *)
(***************************************************************************)

\* load_hash with the status assigned before the hash is read
load_hash_assign_first(self, d, module_path, branch, calls) ==
  UNION {
    LET hash == git_hash(d, module_path, f)
        c == Append(calls, Call("log --pretty=%H", self, hash.st, f))
    IN IF hash.r # "Ok" THEN {Outcome(hash.r, Loaded(branch, <<>>), d, c)}
       ELSE {Outcome("Ok", Loaded(branch, hash.v), d, c)}
    : f \in Faults }

\* load, step 4: `hash: git_hash(&module_path)?` and the assignment
load_hash(self, d, module_path, branch, calls) ==
  UNION {
    LET hash == git_hash(d, module_path, f)
        c == Append(calls, Call("log --pretty=%H", self, hash.st, f))
    IN IF hash.r # "Ok" THEN {Outcome(hash.r, self, d, c)}
       ELSE {Outcome("Ok", Loaded(branch, hash.v), d, c)}
    : f \in Faults }

\* load, step 4: `branch: git_branch(&module_path)?`
load_branch(self, d, module_path, calls) ==
  UNION {
    LET branch == git_branch(d, module_path, f)
        c == Append(calls, Call("branch --show-current", self, branch.st, f))
    IN IF branch.r # "Ok" THEN {Outcome(branch.r, self, d, c)}
       ELSE load_hash(self, d, module_path, branch.v, c)
    : f \in Faults }

\* load_clean going on to the read-back whatever the classifier said
load_clean_ignore(self, d, module_path, calls) ==
  UNION {
    LET b == GitWorktreeAddDetach(d, f)
        c == Append(calls, Call("worktree add -d", self, b.st, f))
    IN load_branch(self, b.d, module_path, c)
    : f \in Faults }

\* load_clean removing the dev worktree and its branch again when it fails
load_clean_rollback(self, d, module_path, calls) ==
  UNION {
    LET b == GitWorktreeAddDetach(d, f)
        rb == io(b.st, expect(b.st, <<0, 128>>))
        c == Append(calls, Call("worktree add -d", self, b.st, f))
        name == d.dev[module_path].branch
        undone == [b.d EXCEPT !.dev[module_path] = NoDev,
                              !.refs = [n \in DOMAIN @ \ {name} |-> @[n]]]
    IN IF rb # "Ok" THEN {Outcome(rb, self, undone, c)}
       ELSE load_branch(self, b.d, module_path, c)
    : f \in Faults }

\* load, step 3: the clean worktree, `.expect(&[0, 128])?`
load_clean(self, d, module_path, calls) ==
  UNION {
    LET b == GitWorktreeAddDetach(d, f)
        rb == io(b.st, expect(b.st, <<0, 128>>))
        c == Append(calls, Call("worktree add -d", self, b.st, f))
    IN IF rb # "Ok" THEN {Outcome(rb, self, b.d, c)}
       ELSE load_branch(self, b.d, module_path, c)
    : f \in Faults }

\* load_dev classifying the dev worktree creation with expect(&[0, 128])
load_dev_lenient(self, d, module_path, name) ==
  UNION {
    LET a == GitWorktreeAddBranch(d, module_path, name, f)
        ra == io(a.st, expect(a.st, <<0, 128>>))
        c == <<Call("worktree add -b", self, a.st, f)>>
    IN IF ra # "Ok" THEN {Outcome(ra, self, a.d, c)}
       ELSE load_clean(self, a.d, module_path, c)
    : f \in Faults }

\* load, step 2: the dev worktree on a new branch, `.expect_success()?`
load_dev(self, d, module_path, name) ==
  UNION {
    LET a == GitWorktreeAddBranch(d, module_path, name, f)
        ra == io(a.st, expect_success(a.st))
        c == <<Call("worktree add -b", self, a.st, f)>>
    IN IF ra # "Ok" THEN {Outcome(ra, self, a.d, c)}
       ELSE load_clean(self, a.d, module_path, c)
    : f \in Faults }

\* load without the early return on Loaded
load_no_guard(self, d, bean_path) ==
  LET module_path == join(bean_path, bean_relative_dev_path)
      name == bean_name_from_(bean_path)
  IN IF name = <<>> THEN {Outcome("InvalidEnvironmentName", self, d, <<>>)}
     ELSE load_dev(self, d, module_path, name)

\* Kernel::load
load(self, d, bean_path) ==
  IF self.tag = "Loaded" THEN {Outcome("Ok", self, d, <<>>)}
  ELSE
  LET module_path == join(bean_path, bean_relative_dev_path)
      name == bean_name_from_(bean_path)
  IN IF name = <<>> THEN {Outcome("InvalidEnvironmentName", self, d, <<>>)}
     ELSE load_dev(self, d, module_path, name)

\* sync, step 4: `hash: git_hash(&module_path)?` and the assignment
sync_hash(self, d, module_path, branch, calls) ==
  UNION {
    LET hash == git_hash(d, module_path, f)
        c == Append(calls, Call("log --pretty=%H", self, hash.st, f))
    IN IF hash.r # "Ok" THEN {Outcome(hash.r, self, d, c)}
       ELSE {Outcome("Ok", Loaded(branch, hash.v), d, c)}
    : f \in Faults }

\* sync_switch falling back to Unloaded when the switch fails
sync_switch_reset(self, d, module_path, branch, calls) ==
  UNION {
    LET s == GitSwitchDetach(d, branch, f)
        rs == io(s.st, expect_success(s.st))
        c == Append(calls, Call("switch --detach", self, s.st, f))
    IN IF rs # "Ok" THEN {Outcome(rs, Unloaded, s.d, c)}
       ELSE sync_hash(self, s.d, module_path, branch, c)
    : f \in Faults }

\* sync, step 3: switch the clean worktree, `.expect_success()?`
sync_switch(self, d, module_path, branch, calls) ==
  UNION {
    LET s == GitSwitchDetach(d, branch, f)
        rs == io(s.st, expect_success(s.st))
        c == Append(calls, Call("switch --detach", self, s.st, f))
    IN IF rs # "Ok" THEN {Outcome(rs, self, s.d, c)}
       ELSE sync_hash(self, s.d, module_path, branch, c)
    : f \in Faults }

\* sync_branch recording the branch in the status as soon as it is read
sync_branch_record_early(self, d, module_path, calls) ==
  UNION {
    LET branch == git_branch(d, module_path, f)
        c == Append(calls, Call("branch --show-current", self, branch.st, f))
    IN IF branch.r # "Ok" THEN {Outcome(branch.r, self, d, c)}
       ELSE sync_switch(Loaded(branch.v, <<>>), d, module_path, branch.v, c)
    : f \in Faults }

\* sync, step 2: `let branch = git_branch(&module_path)?`
sync_branch(self, d, module_path, calls) ==
  UNION {
    LET branch == git_branch(d, module_path, f)
        c == Append(calls, Call("branch --show-current", self, branch.st, f))
    IN IF branch.r # "Ok" THEN {Outcome(branch.r, self, d, c)}
       ELSE sync_switch(self, d, module_path, branch.v, c)
    : f \in Faults }

\* sync_status putting the uncommitted changes away before going on
sync_status_stash(self, d, module_path) ==
  UNION {
    LET clean == git_status(d, module_path, f)
        c == <<Call("log --pretty=%H", self, clean.st, f)>>
        stashed == [d EXCEPT !.dev[module_path].dirty = FALSE]
    IN IF clean.r # "Ok" THEN {Outcome(clean.r, self, d, c)}
       ELSE IF ~clean.v THEN {Outcome("DirtyWorkingTree", self, d, c)}
       ELSE sync_branch(self, stashed, module_path, c)
    : f \in Faults }

\* sync, step 1: `if !git_status(&module_path)? { return Err(..) }`
sync_status(self, d, module_path) ==
  UNION {
    LET clean == git_status(d, module_path, f)
        c == <<Call("log --pretty=%H", self, clean.st, f)>>
    IN IF clean.r # "Ok" THEN {Outcome(clean.r, self, d, c)}
       ELSE IF ~clean.v THEN {Outcome("DirtyWorkingTree", self, d, c)}
       ELSE sync_branch(self, d, module_path, c)
    : f \in Faults }

\* sync without the early return on Unloaded
sync_no_guard(self, d, bean_path) ==
  sync_status(self, d, join(bean_path, bean_relative_dev_path))

\* Kernel::sync
sync(self, d, bean_path) ==
  IF self.tag = "Unloaded" THEN {Outcome("NotLoaded", self, d, <<>>)}
  ELSE sync_status(self, d, join(bean_path, bean_relative_dev_path))

\* unload_remove with the status assigned after the removal succeeded
unload_remove_assign_last(self, d, module_path) ==
  UNION {
    LET r == GitWorktreeRemove(d, module_path, f)
        rr == io(r.st, expect_success(r.st))
        c == <<Call("worktree remove", self, r.st, f)>>
    IN {Outcome(rr, IF rr = "Ok" THEN Unloaded ELSE self, r.d, c)}
    : f \in Faults }

\* unload_remove that takes the clean worktree and the branch away with the
\* dev worktree
unload_remove_prune(self, d, module_path) ==
  UNION {
    LET status == Unloaded
        r == GitWorktreeRemove(d, module_path, f)
        rr == io(r.st, expect_success(r.st))
        c == <<Call("worktree remove", status, r.st, f)>>
        left == DOMAIN d.refs \ {d.dev[module_path].branch}
    IN {Outcome(rr, status,
                IF r.st = 0
                  THEN [r.d EXCEPT !.clean = NoClean,
                                   !.refs = [n \in left |-> d.refs[n]]]
                  ELSE r.d,
                c)}
    : f \in Faults }

\* unload: `self.module_status = Unloaded` and then the removal
unload_remove(self, d, module_path) ==
  UNION {
    LET status == Unloaded
        r == GitWorktreeRemove(d, module_path, f)
        rr == io(r.st, expect_success(r.st))
        c == <<Call("worktree remove", status, r.st, f)>>
    IN {Outcome(rr, status, r.d, c)}
    : f \in Faults }

\* unload without the early return on Unloaded
unload_no_guard(self, d, bean_path) ==
  unload_remove(self, d, join(bean_path, bean_relative_dev_path))

\* Kernel::unload
unload(self, d, bean_path) ==
  IF self.tag = "Unloaded" THEN {Outcome("Ok", self, d, <<>>)}
  ELSE unload_remove(self, d, join(bean_path, bean_relative_dev_path))

(***************************************************************************)
(* State machine                                                           *)
(***************************************************************************)
Disk == [refs |-> refs, dev |-> devWt, clean |-> cleanWt]

\* Kernel::setup, over a source repository with zero, one or two commits and
\* a clean worktree that may be there from an earlier environment
Init ==
  /\ module_status = Unloaded
  /\ refs \in {<<>>, [n \in {"main"} |-> <<1>>], [n \in {"main"} |-> <<2, 1>>]}
  /\ devWt = [p \in ModulePaths |-> NoDev]
  /\ cleanWt \in {NoClean} \cup
                 (IF "main" \in DOMAIN refs
                  THEN {[exists |-> TRUE, head |-> Head(refs["main"])]}
                  ELSE {})
  /\ last = [op |-> "setup", bean_path |-> <<>>, result |-> "Ok", calls |-> <<>>,
             before |-> Unloaded]
  /\ mutating_ok = TRUE
  /\ phase = [p \in BeanPaths |-> "none"]
  /\ fs = ConfigDirOnly

\* the commands that change the repository
Mutating == {"worktree add -b", "worktree add -d", "switch --detach", "worktree remove"}

AllSucceeded(calls) ==
  \A i \in DOMAIN calls : calls[i].cmd \in Mutating => calls[i].st = 0

\* the load / unload cycle of an environment path: "loaded" once a load from
\* Unloaded succeeded on it, "stranded" once a load on it failed at the clean
\* worktree after creating the dev worktree, "cycled" once a loaded path was
\* unloaded with success
NextPhase(op, bean_path, o) ==
  IF op = "load" /\ module_status.tag = "Unloaded" /\ o.result = "Ok"
    THEN [phase EXCEPT ![bean_path] = "loaded"]
  ELSE IF op = "load" /\ o.result # "Ok" /\ Len(o.calls) = 2
    THEN [phase EXCEPT ![bean_path] = "stranded"]
  ELSE IF op = "unload" /\ module_status.tag = "Loaded" /\ o.result = "Ok"
          /\ phase[bean_path] = "loaded"
    THEN [phase EXCEPT ![bean_path] = "cycled"]
  ELSE phase

\* what the caller sees of a finished call: the operation, its argument, its
\* result, the subprocesses it launched and the status it started from
Done(op, bean_path, o) ==
  [op |-> op, bean_path |-> bean_path, result |-> o.result, calls |-> o.calls,
   before |-> module_status]

Load ==
  \E bean_path \in BeanPaths :
    \E o \in load(module_status, Disk, bean_path) :
      /\ module_status' = o.status
      /\ refs' = o.d.refs
      /\ devWt' = o.d.dev
      /\ cleanWt' = o.d.clean
      /\ last' = Done("load", bean_path, o)
      /\ mutating_ok' = (mutating_ok /\ AllSucceeded(o.calls))
      /\ phase' = NextPhase("load", bean_path, o)
      /\ UNCHANGED fs

Sync ==
  \E bean_path \in BeanPaths :
    \E o \in sync(module_status, Disk, bean_path) :
      /\ module_status' = o.status
      /\ refs' = o.d.refs
      /\ devWt' = o.d.dev
      /\ cleanWt' = o.d.clean
      /\ last' = Done("sync", bean_path, o)
      /\ mutating_ok' = (mutating_ok /\ AllSucceeded(o.calls))
      /\ phase' = NextPhase("sync", bean_path, o)
      /\ UNCHANGED fs

Unload ==
  \E bean_path \in BeanPaths :
    \E o \in unload(module_status, Disk, bean_path) :
      /\ module_status' = o.status
      /\ refs' = o.d.refs
      /\ devWt' = o.d.dev
      /\ cleanWt' = o.d.clean
      /\ last' = Done("unload", bean_path, o)
      /\ mutating_ok' = (mutating_ok /\ AllSucceeded(o.calls))
      /\ phase' = NextPhase("unload", bean_path, o)
      /\ UNCHANGED fs

\* the largest commit number in the repository
RECURSIVE MaxOf(_)
MaxOf(S) == IF S = {} THEN 0
            ELSE LET x == CHOOSE y \in S : TRUE
                     m == MaxOf(S \ {x})
                 IN IF x > m THEN x ELSE m

Tip == MaxOf({Head(refs[n]) : n \in DOMAIN refs})

Developer(path) ==
  [op |-> "developer", bean_path |-> path, result |-> "Ok", calls |-> <<>>,
   before |-> module_status]

\* the developer changes a file in a dev worktree (module_path of sync)
DevEdit ==
  \E bean_path \in BeanPaths :
    LET module_path == join(bean_path, bean_relative_dev_path)
    IN /\ devWt[module_path].exists
       /\ ~devWt[module_path].dirty
       /\ devWt' = [devWt EXCEPT ![module_path].dirty = TRUE]
       /\ last' = Developer(bean_path)
       /\ UNCHANGED <<module_status, refs, cleanWt, mutating_ok, phase, fs>>

\* the developer commits the changes of a dev worktree on its branch
DevCommit ==
  \E bean_path \in BeanPaths :
    LET module_path == join(bean_path, bean_relative_dev_path)
        branch == devWt[module_path].branch
    IN /\ devWt[module_path].exists
       /\ devWt[module_path].dirty
       /\ Tip < MaxCommits
       /\ refs' = [refs EXCEPT ![branch] = <<Tip + 1>> \o @]
       /\ devWt' = [devWt EXCEPT ![module_path].dirty = FALSE]
       /\ last' = Developer(bean_path)
       /\ UNCHANGED <<module_status, cleanWt, mutating_ok, phase, fs>>

Next == Load \/ Sync \/ Unload \/ DevEdit \/ DevCommit

Spec == Init /\ [][Next]_vars

(***************************************************************************)
(* The classifier on its own: every exit status against every allow-list   *)
(* of up to MaxCodes codes.  `last` holds the classified status, the list  *)
(* and the result; the Kernel stays as Kernel::setup left it.              *)
(***************************************************************************)
ExitStatuses == {Signal, 0, 1, 2, 128, 255}

AllowCodes == {0, 1, 128}

CodeLists == UNION {[1..n -> AllowCodes] : n \in 0..MaxCodes}

KernelIdle ==
  /\ module_status = Unloaded
  /\ refs = <<>>
  /\ devWt = [p \in ModulePaths |-> NoDev]
  /\ cleanWt = NoClean
  /\ mutating_ok = TRUE
  /\ phase = [p \in BeanPaths |-> "none"]

ClassifierInit ==
  /\ KernelIdle
  /\ fs = ConfigDirOnly
  /\ last = [op |-> "setup", es |-> 0, code |-> <<>>, result |-> "Ok"]

\* status.expect(code)
Expect ==
  \E es \in ExitStatuses, code \in CodeLists :
    /\ last' = [op |-> "expect", es |-> es, code |-> code, result |-> expect(es, code)]
    /\ UNCHANGED <<module_status, refs, devWt, cleanWt, mutating_ok, phase, fs>>

\* status.expect_success()
ExpectSuccess ==
  \E es \in ExitStatuses :
    /\ last' = [op |-> "expect_success", es |-> es, code |-> <<>>,
                result |-> expect_success(es)]
    /\ UNCHANGED <<module_status, refs, devWt, cleanWt, mutating_ok, phase, fs>>

ClassifierNext == Expect \/ ExpectSuccess

SpecClassifier == ClassifierInit /\ [][ClassifierNext]_vars

(***************************************************************************)
(* Environment creation on its own: every name of up to MaxNameLen         *)
(* characters, until MaxBeans environment directories are on disk; the     *)
(* Kernel stays as Kernel::setup left it.                                  *)
(***************************************************************************)
Chars == {"a", ".", "/", "|", ";"}

Names == UNION {[1..n -> Chars] : n \in 0..MaxNameLen}

BeansInit ==
  /\ KernelIdle
  /\ fs = ConfigDirOnly
  /\ last = [op |-> "setup", name |-> <<>>, result |-> "Ok", bean_dir |-> <<>>]

CreateNewBean ==
  \E name \in Names, io_error \in BOOLEAN :
    LET o == create_new_bean(fs, name, io_error)
    IN /\ Cardinality(fs \ ConfigDirOnly) < MaxBeans
       /\ fs' = o.disk
       /\ last' = [op |-> "create_new_bean", name |-> name, result |-> o.result,
                   bean_dir |-> o.bean_dir]
       /\ UNCHANGED <<module_status, refs, devWt, cleanWt, mutating_ok, phase>>

BeansNext == CreateNewBean

SpecBeans == BeansInit /\ [][BeansNext]_vars

(***************************************************************************)
(* Properties                                                              *)
(***************************************************************************)
\* the module path of the last call
LastModulePath == join(last.bean_path, bean_relative_dev_path)

IsCall == last.op \in {"load", "sync", "unload"}

\* every command the last call launched met no fault of the environment
NoFault == \A i \in DOMAIN last.calls : last.calls[i].fault = 0

Launched(cmd) == \E i \in DOMAIN last.calls : last.calls[i].cmd = cmd

\* the commit a dev worktree has checked out
DevHead(path) == Head(refs[devWt[path].branch])

\* C1: load on a Loaded module returns success, launches no subprocess and
\* leaves the status (branch, hash) as it was, whatever the environment path
C1_LoadIdempotent ==
  (last.op = "load" /\ last.before.tag = "Loaded")
    => /\ last.result = "Ok"
       /\ last.calls = <<>>
       /\ module_status = last.before

C1_Witness ==
  /\ last.op = "load"
  /\ last.before.tag = "Loaded"
  /\ module_status.tag = "Loaded"

\* C2: sync on an Unloaded module fails with NotLoaded, launches no
\* subprocess and leaves the status Unloaded
C2_SyncUnloaded ==
  (last.op = "sync" /\ last.before.tag = "Unloaded")
    => /\ last.result = "NotLoaded"
       /\ last.calls = <<>>
       /\ module_status = Unloaded

C2_Witness ==
  /\ last.op = "sync"
  /\ last.before.tag = "Unloaded"
  /\ last.result = "NotLoaded"

\* C3: sync on a Loaded module whose dev worktree has uncommitted changes
\* fails with DirtyWorkingTree and launches no switch of the clean worktree
C3_DirtySyncRefused ==
  (/\ last.op = "sync"
   /\ last.before.tag = "Loaded"
   /\ devWt[LastModulePath].exists
   /\ devWt[LastModulePath].dirty
   /\ NoFault)
    => /\ last.result = "DirtyWorkingTree"
       /\ ~Launched("switch --detach")

C5_UnloadUnloaded ==
  (last.op = "unload" /\ last.before.tag = "Unloaded")
    => /\ last.result = "Ok"
       /\ last.calls = <<>>
       /\ module_status = Unloaded

C5_Witness ==
  /\ last.op = "unload"
  /\ last.before.tag = "Unloaded"
  /\ last.result = "Ok"

\* C6: a load that returns an error leaves the status Unloaded, at whichever
\* step it failed (dev worktree, clean worktree, read-back of branch or hash)
C6_FailedLoadUnloaded ==
  (last.op = "load" /\ last.result # "Ok") => module_status = Unloaded

\* the read-back of the hash failed after both worktrees were created
C6_Witness ==
  /\ last.op = "load"
  /\ last.result # "Ok"
  /\ Len(last.calls) = 4
  /\ devWt[LastModulePath].exists
  /\ cleanWt.exists

\* C7: unload on a Loaded module has the status Unloaded when the removal is
\* launched; when the removal fails unload returns an error, the status is
\* Unloaded all the same and the dev worktrees are as they were
C7_UnloadStatusFirst ==
  [][(last'.op = "unload" /\ module_status.tag = "Loaded")
       => /\ module_status' = Unloaded
          /\ Len(last'.calls) = 1
          /\ last'.calls[1].cmd = "worktree remove"
          /\ last'.calls[1].status = "Unloaded"
          /\ (last'.calls[1].st # 0 => (last'.result # "Ok" /\ devWt' = devWt))]_vars

\* status Unloaded, the unload failed, its dev worktree is still on disk
C7_Witness ==
  /\ last.op = "unload"
  /\ last.before.tag = "Loaded"
  /\ last.result # "Ok"
  /\ module_status = Unloaded
  /\ devWt[LastModulePath].exists

\* C8: whenever the status is Loaded, a dev worktree on its environment's
\* branch and the clean worktree are both on disk
C8_LoadedHasBothWorktrees ==
  module_status.tag = "Loaded"
    => /\ cleanWt.exists
       /\ \E p \in BeanPaths :
            LET path == join(p, bean_relative_dev_path)
            IN devWt[path].exists /\ <<devWt[path].branch>> = bean_name_from_(p)

\* C9: after a successful load from Unloaded the recorded branch is the final
\* component of the environment path and the recorded hash is the hash of the
\* dev worktree's HEAD commit, one commit identifier
C9_LoadRecordsBranchAndHead ==
  (last.op = "load" /\ last.before.tag = "Unloaded" /\ last.result = "Ok")
    => /\ module_status.tag = "Loaded"
       /\ module_status.branch = bean_name_from_(last.bean_path)
       /\ module_status.hash = <<HashOf[DevHead(LastModulePath)]>>

\* C10: as long as no mutating command has failed, after every call that
\* returns success the status is Loaded exactly when a dev worktree is on
\* disk, and the recorded branch and hash are that worktree's branch and HEAD
C10_StatusMirrorsDisk ==
  (mutating_ok /\ IsCall /\ last.result = "Ok")
    => /\ module_status.tag = "Loaded" <=> \E path \in ModulePaths : devWt[path].exists
       /\ module_status.tag = "Loaded"
            => \E path \in ModulePaths :
                 /\ devWt[path].exists
                 /\ module_status.branch = <<devWt[path].branch>>
                 /\ module_status.hash = <<HashOf[DevHead(path)]>>

\* C11: the status is Unloaded at first and always Unloaded or Loaded; only
\* load takes it from Unloaded to Loaded, only unload from Loaded to Unloaded,
\* and sync never changes which of the two it is
C11_TwoStates ==
  /\ module_status = Unloaded
  /\ [][/\ module_status'.tag \in {"Unloaded", "Loaded"}
        /\ (module_status'.tag = "Unloaded" => module_status' = Unloaded)
        /\ (module_status.tag = "Unloaded" /\ module_status'.tag = "Loaded")
             => last'.op = "load"
        /\ (module_status.tag = "Loaded" /\ module_status'.tag = "Unloaded")
             => last'.op = "unload"
        /\ last'.op = "sync" => module_status'.tag = module_status.tag]_vars

\* the module went Unloaded -> Loaded -> Unloaded
C11_Witness ==
  /\ last.op = "unload"
  /\ last.before.tag = "Loaded"
  /\ last.result = "Ok"
  /\ module_status = Unloaded

InList(es, code) == \E i \in DOMAIN code : code[i] = es

\* C12: expect(code) succeeds exactly when the process has a numeric exit code
\* and the code is in the list; without a numeric code it fails with
\* NoExitCode, with a code outside the list with UnexpectedExit; the empty
\* list never succeeds
C12_ExpectAllowList ==
  last.op = "expect"
    => /\ last.result = "Ok" <=> (last.es # Signal /\ InList(last.es, last.code))
       /\ last.es = Signal => last.result = "NoExitCode"
       /\ (last.es # Signal /\ ~InList(last.es, last.code))
            => last.result = "UnexpectedExit"
       /\ last.code = <<>> => last.result # "Ok"

\* exit code 128 accepted as the second code of the list
C12_Witness ==
  /\ last.op = "expect"
  /\ last.es = 128
  /\ last.code = <<0, 128>>
  /\ last.result = "Ok"

NoFinalComponent(path) == path = <<>> \/ path[Len(path)] = ".."

\* C13: load of an Unloaded module on an environment path without a final
\* component fails with InvalidEnvironmentName, launches no subprocess, leaves
\* the status Unloaded and the repository and its worktrees as they were
C13_InvalidEnvironmentName ==
  [][(/\ last'.op = "load"
      /\ module_status.tag = "Unloaded"
      /\ NoFinalComponent(last'.bean_path))
       => /\ last'.result = "InvalidEnvironmentName"
          /\ last'.calls = <<>>
          /\ module_status' = Unloaded
          /\ refs' = refs /\ devWt' = devWt /\ cleanWt' = cleanWt]_vars

C13_Witness ==
  /\ last.op = "load"
  /\ last.bean_path = DOTDOT
  /\ last.result = "InvalidEnvironmentName"
  /\ module_status = Unloaded

\* the commands of an operation, in the order it launches them
Steps(op) ==
  CASE op = "load" -> <<"worktree add -b", "worktree add -d",
                        "branch --show-current", "log --pretty=%H">>
    [] op = "sync" -> <<"log --pretty=%H", "branch --show-current",
                        "switch --detach", "log --pretty=%H">>
    [] op = "unload" -> <<"worktree remove">>

\* the exit statuses an operation takes for success of a command
Accepted(call) ==
  IF call.cmd = "worktree add -d" THEN call.st \in {0, 128} ELSE call.st = 0

\* C14: the commands of a call are launched once each, in order; a command
\* that fails (by the classifier of its call site) is the last one launched
\* and the call returns an error
C14_FailFast ==
  IsCall
    => /\ Len(last.calls) <= Len(Steps(last.op))
       /\ \A i \in DOMAIN last.calls :
            /\ last.calls[i].cmd = Steps(last.op)[i]
            /\ ~Accepted(last.calls[i])
                 => (i = Len(last.calls) /\ last.result # "Ok")

\* the clean worktree creation of a load failed and nothing was launched after
C14_Witness ==
  /\ last.op = "load"
  /\ Len(last.calls) = 2
  /\ last.calls[2].st = 1
  /\ last.result # "Ok"

\* C15: load goes past the dev worktree creation only on exit status 0 and
\* fails on any other, 128 included; it goes past the clean worktree creation
\* on 0 or 128 and fails on any other code or a missing code
C15_LoadExitCodes ==
  (last.op = "load" /\ Len(last.calls) >= 1)
    => /\ last.calls[1].st = 0 => Len(last.calls) >= 2
       /\ last.calls[1].st # 0 => (Len(last.calls) = 1 /\ last.result # "Ok")
       /\ Len(last.calls) >= 2
            => /\ last.calls[2].st \in {0, 128} => Len(last.calls) >= 3
               /\ last.calls[2].st \notin {0, 128}
                    => (Len(last.calls) = 2 /\ last.result # "Ok")

\* a load that succeeded over exit code 128 of the clean worktree creation
C15_Witness ==
  /\ last.op = "load"
  /\ Len(last.calls) = 4
  /\ last.calls[2].st = 128
  /\ last.result = "Ok"

\* C16: expect_success succeeds exactly when the success indicator is set and
\* fails with UnexpectedExit otherwise; it succeeds exactly when expect([0]) does
C16_ExpectSuccess ==
  last.op = "expect_success"
    => /\ last.result = "Ok" <=> success(last.es)
       /\ last.result # "Ok" => last.result = "UnexpectedExit"
       /\ last.result = "Ok" <=> expect(last.es, <<0>>) = "Ok"

\* a process killed by a signal fails under both
C16_Witness ==
  /\ last.op = "expect_success"
  /\ last.es = Signal
  /\ last.result = "UnexpectedExit"
  /\ expect(last.es, <<0>>) = "NoExitCode"

\* a load fails at the clean worktree: status Unloaded, the dev worktree and
\* its new branch on disk
Stranding ==
  (last'.op = "load" /\ last'.result # "Ok" /\ Len(last'.calls) = 2)
    => /\ module_status' = Unloaded
       /\ devWt'[LastModulePath'].exists
       /\ <<devWt'[LastModulePath'].branch>> = bean_name_from_(last'.bean_path)
       /\ devWt'[LastModulePath'].branch \in DOMAIN refs'
       /\ phase'[last'.bean_path] = "stranded"

FailsAtDevWorktree ==
  /\ last'.result # "Ok"
  /\ Len(last'.calls) = 1
  /\ last'.calls[1].cmd = "worktree add -b"

C18_ReloadAfterUnload ==
  [][(/\ last'.op = "load"
      /\ module_status.tag = "Unloaded"
      /\ phase[last'.bean_path] = "cycled"
      /\ NoFault')
       => (last'.result = "Ok" /\ module_status'.tag = "Loaded")]_vars

\* C19: sync leaves every dev worktree (branch, uncommitted changes) and every
\* branch's commits as they were; of the disk it may move only the commit the
\* clean worktree is detached at
C19_SyncKeepsDevWorktree ==
  [][last'.op = "sync"
       => /\ devWt' = devWt
          /\ refs' = refs
          /\ cleanWt'.exists = cleanWt.exists]_vars

\* a sync that got as far as the switch over uncommitted changes
C19_Witness ==
  /\ last.op = "sync"
  /\ Launched("switch --detach")
  /\ devWt[LastModulePath].dirty

\* C20: a sync that returns an error leaves the status as it was before the
\* call, at whichever step it failed
C20_FailedSyncKeepsStatus ==
  (last.op = "sync" /\ last.result # "Ok") => module_status = last.before

\* a sync that failed at the switch of the clean worktree
C20_Witness ==
  /\ last.op = "sync"
  /\ last.before.tag = "Loaded"
  /\ Len(last.calls) = 3
  /\ last.result # "Ok"
  /\ module_status = last.before

\* C21: an unload call, whatever it returns, leaves the clean worktree and
\* every branch with its commits as they were, and of the dev worktrees it
\* changes at most the one at its module path; so the clean worktree that was
\* on disk before an unload is on disk after it, under the status Unloaded
C21_UnloadRemovesOnlyDev ==
  [][last'.op = "unload"
       => /\ cleanWt' = cleanWt
          /\ refs' = refs
          /\ \A path \in ModulePaths :
               path # join(last'.bean_path, bean_relative_dev_path)
                 => devWt'[path] = devWt[path]
          /\ module_status' = Unloaded]_vars

\* Unloaded after an unload that removed the dev worktree, with the clean
\* worktree and the branch that load created still there
C21_Witness ==
  /\ last.op = "unload"
  /\ last.before.tag = "Loaded"
  /\ last.result = "Ok"
  /\ module_status = Unloaded
  /\ ~devWt[LastModulePath].exists
  /\ cleanWt.exists
  /\ last.bean_path[Len(last.bean_path)] \in DOMAIN refs

\* characters that separate the components of a path
PathSeparators == {"/", "\\"}

\* characters a shell does not take literally
ShellMetacharacters ==
  {"|", "&", ";", "<", ">", "(", ")", "$", "`", "\\", "\"", "'", "*", "?", "[", "]",
   "#", "~", " "}

Restricted(name) ==
  \A i \in DOMAIN name : name[i] \notin PathSeparators \cup ShellMetacharacters

\* C22: creating an environment under a name that contains a path separator
\* or a shell metacharacter returns an error and leaves the directories on
\* disk as they were, and a creation that succeeds returns the path
\* beans_config_dir/name, whose directory is then on disk
C22_RestrictedNames ==
  [][last'.op = "create_new_bean"
       => /\ ~Restricted(last'.name)
               => (last'.result # "Ok" /\ fs' = fs)
          /\ last'.result = "Ok"
               => /\ last'.bean_dir = beans_config_dir \o <<"/">> \o last'.name
                  /\ DirOf(last'.bean_dir) \in fs']_vars

====
